---- MODULE Spec2Model ----
(***************************************************************************)
(* Model of the TaskManager class of script.js: the in-memory task store   *)
(* (tasks, nextId), the localStorage blob it loads from and saves to, and  *)
(* the filtered/sorted view it computes.                                   *)
(*                                                                         *)
(* Representation of JavaScript values:                                    *)
(*   - free-text strings (title, description, search term) are sequences  *)
(*     of one-character strings, so that trim() is computed;               *)
(*   - enumerated strings (category, priority, due dates) are strings;     *)
(*   - null is Null, a missing property (undefined) is Undefined;          *)
(*   - an ISO timestamp is represented by the instant it denotes;          *)
(*   - a task object is a record over TaskKeys; an argument object         *)
(*     (taskData, updatedData) is a function over the keys it carries.     *)
(* The localStorage item is Absent, a text that JSON.parse rejects, a JSON *)
(* text whose top-level value is not an array, or the JSON text of an      *)
(* array of objects (a sequence of <<key, JSON value>> lists).             *)
(***************************************************************************)
EXTENDS Integers, Sequences, FiniteSets

VARIABLES
    tasks,       \* this.tasks
    nextId,      \* this.nextId (0: never assigned, the constructor threw)
    storage,     \* localStorage item 'tasks'
    phase,       \* "running", or "crashed" when the constructor threw
    lastOp,      \* the operation that produced this state, with its arguments
    result,      \* what that operation returned (a sequence of tasks)
    sessionMax,  \* history: greatest id loaded or assigned by addTask since the last load
    unsaved,     \* environment: writes rejected since the last accepted write
    listeners,   \* drop listeners attached to #task-list since the page loaded
    filterControls  \* what the search box and the three filter selects hold

vars == <<tasks, nextId, storage, phase, lastOp, result, sessionMax, unsaved,
         listeners, filterControls>>

-----------------------------------------------------------------------------
(* Bounds *)

\* addTask is disabled at this collection length
MaxTasks == 2
\* addTask is disabled once nextId exceeds this
MaxId == 2
\* longest collection the view specification starts from
MaxQueryLen == 3
\* the backend rejects at most this many writes in a row
MaxRejected == 1

-----------------------------------------------------------------------------
(* JavaScript values *)

Null == "null"
Undefined == <<"undefined">>     \* a missing free-text property

TaskKeys == {"id", "title", "category", "dueDate", "priority",
             "description", "completed", "createdAt"}
KeyOrder == <<"id", "title", "category", "dueDate", "priority",
              "description", "completed", "createdAt">>

\* the ids of a sequence of tasks, in its order
Ids(ts) == [i \in 1..Len(ts) |-> ts[i].id]

SetMax(S) == CHOOSE m \in S : \A n \in S : n <= m
SetMin(S) == CHOOSE m \in S : \A n \in S : m <= n

\* obj.key for a free-text property: undefined when the object lacks it
TextProp(obj, key) == IF key \in DOMAIN obj THEN obj[key] ELSE Undefined

\* String.prototype.trim
trim(s) ==
    LET solid == {i \in 1..Len(s) : s[i] # " "}
    IN  IF solid = {} THEN <<>> ELSE SubSeq(s, SetMin(solid), SetMax(solid))

sanitizeInput(input) ==
    IF input = Undefined \/ input = <<>> THEN <<>> ELSE trim(input)

\* Array.prototype.findIndex(task => task.id === id): 0-based, -1 when absent
findIndex(ts, id) ==
    LET hits == {i \in 1..Len(ts) : ts[i].id = id}
    IN  IF hits = {} THEN -1 ELSE SetMin(hits) - 1

\* Array.prototype.indexOf: 0-based, -1 when absent
indexOf(seq, x) ==
    LET hits == {i \in 1..Len(seq) : seq[i] = x}
    IN  IF hits = {} THEN -1 ELSE SetMin(hits) - 1

\* every <<a, b>> the comparator can be called with
Pairs(s) == {s[i] : i \in 1..Len(s)} \X {s[i] : i \in 1..Len(s)}

\* Array.prototype.sort with a comparator (cmp[<<a, b>>] is compareFn(a, b)):
\* stable insertion of each element after the last element that does not
\* compare greater than it
SortBy(s, cmp) ==
    LET insert(acc, x) ==
            LET le == {j \in 1..Len(acc) : cmp[<<acc[j], x>>] <= 0}
                k  == IF le = {} THEN 0 ELSE SetMax(le)
            IN  SubSeq(acc, 1, k) \o <<x>> \o SubSeq(acc, k + 1, Len(acc))
        run[n \in 0..Len(s)] ==
            IF n = 0 THEN <<>> ELSE insert(run[n - 1], s[n])
    IN  run[Len(s)]

-----------------------------------------------------------------------------
(* JSON text of the collection *)

Absent == [kind |-> "absent"]          \* getItem returns null
Invalid == [kind |-> "invalid"]        \* a text JSON.parse throws on
NonArray == [kind |-> "object"]        \* a valid JSON text such as {}

\* JSON.stringify of one property value
JSONvalue(key, v) ==
    CASE key = "id" -> <<"number", v>>
      [] key = "createdAt" -> <<"string", v>>
      [] key = "completed" -> <<"literal", v>>
      [] key = "dueDate" -> IF v = Null THEN <<"null">> ELSE <<"string", v>>
      [] OTHER -> <<"string", v>>

\* JSON.parse of one property value
JSparse(jv) == IF jv[1] = "null" THEN Null ELSE jv[2]

\* JSON.stringify(this.tasks): every task, its properties in insertion order
JSONstringify(ts) ==
    [kind |-> "array",
     items |-> [i \in 1..Len(ts) |->
                  [n \in 1..Len(KeyOrder) |->
                     <<KeyOrder[n], JSONvalue(KeyOrder[n], ts[i][KeyOrder[n]])>>]]]

\* JSON.parse of a text that is valid JSON
JSONparse(text) ==
    IF text.kind = "array"
    THEN [kind |-> "array",
          items |-> [i \in 1..Len(text.items) |->
                       [k \in TaskKeys |->
                          LET n == CHOOSE m \in 1..Len(text.items[i]) :
                                       text.items[i][m][1] = k
                          IN  JSparse(text.items[i][n][2])]]]
    ELSE [kind |-> "object"]

-----------------------------------------------------------------------------
(* Construction *)

\* variant: a loader that normalises an empty due date to null
loadTasks_normalised(blob, readable) ==
    IF ~readable \/ blob.kind \in {"absent", "invalid"}
    THEN [kind |-> "array", items |-> <<>>]
    ELSE LET parsed == JSONparse(blob)
         IN  IF parsed.kind # "array" THEN parsed
             ELSE [kind |-> "array",
                   items |-> [i \in 1..Len(parsed.items) |->
                                [parsed.items[i] EXCEPT
                                    !.dueDate = IF @ = "" THEN Null ELSE @]]]

\* readable = FALSE: localStorage.getItem throws
loadTasks(blob, readable) ==
    IF ~readable THEN [kind |-> "array", items |-> <<>>]
    ELSE IF blob.kind = "absent" THEN [kind |-> "array", items |-> <<>>]
    ELSE IF blob.kind = "invalid" THEN [kind |-> "array", items |-> <<>>]
    ELSE JSONparse(blob)

\* variant: the next id taken from the number of tasks
generateNextId_count(ts) == Len(ts) + 1

generateNextId(ts) ==
    IF Len(ts) = 0 THEN 1
    ELSE SetMax({ts[i].id : i \in 1..Len(ts)}) + 1

\* the fields the constructor leaves; a non-array value has no .map, so
\* generateNextId throws and nextId is never assigned
constructor(blob, readable) ==
    LET loaded == loadTasks(blob, readable)
    IN  IF loaded.kind = "array"
        THEN [tasks |-> loaded.items,
              nextId |-> generateNextId(loaded.items),
              phase |-> "running"]
        ELSE [tasks |-> <<>>, nextId |-> 0, phase |-> "crashed"]

LoadSource(blob, readable) == IF readable THEN blob.kind ELSE "unreadable"

-----------------------------------------------------------------------------
(* Inputs *)

Times == {1}                           \* instants new Date() returns
IdArgs == 1..MaxId                     \* ids the operations are called with

\* taskData objects handed to addTask
TaskInputs ==
    { [title |-> <<" ", "a">>, category |-> "Shopping", priority |-> "Low"] }

FullTaskData ==
    [title |-> <<"b">>, category |-> "Work", dueDate |-> "2024-01-10",
     priority |-> "High", description |-> <<"A", " ">>]

\* updatedData objects handed to editTask: the edit form's five fields, and
\* the same with an id or a completed property
FormInput ==
    [title |-> <<"c", " ">>, category |-> "Shopping", dueDate |-> "",
     priority |-> "Low", description |-> <<>>]

With(obj, key, v) ==
    [k \in DOMAIN obj \cup {key} |-> IF k = key THEN v ELSE obj[k]]

UpdateInputs ==
    {FormInput, With(FormInput, "id", MaxId), With(FormInput, "completed", TRUE)}

\* updatedData objects of other shapes: the form's five fields, one field
\* only, a title only
EditInputs ==
    {FormInput, [priority |-> "High"], [title |-> <<" ", "d">>]}

\* the orders the elements of the list can be dragged into: appendChild
\* and insertBefore (lines 476-478) move an element within the list
Arrangements(order) ==
    LET places == 1..Len(order)
    IN  { [i \in places |-> order[at[i]]] :
            at \in { f \in [places -> places] :
                       \A i, j \in places : i # j => f[i] # f[j] } }

\* the ids read from the rendered list after a drag: any arrangement of
\* any subset of the stored ids
IdOrders(ts) ==
    LET ids == {ts[i].id : i \in 1..Len(ts)}
    IN  { o \in UNION { [1..n -> ids] : n \in 0..Cardinality(ids) } :
            \A i, j \in 1..Len(o) : i # j => o[i] # o[j] }

\* the unfiltered list after a drag: every stored id, in any arrangement
FullOrders(ts) == { o \in IdOrders(ts) : \A i \in 1..Len(ts) : indexOf(o, ts[i].id) # -1 }

\* most drop listeners on the list for which a drop is modelled
MaxListeners == 2

\* what the search box holds: nothing, or a capital letter
SearchTerms == { <<>>, <<"A">> }
\* the filter controls as the page loads them
DefaultControls ==
    [searchTerm |-> <<>>, category |-> "all", priority |-> "all", status |-> "all"]

\* the values of the four filter controls: at most one of them set, or all
\* four set
Filters ==
    { controls \in [searchTerm : SearchTerms,
                    category : {"all", "Work"},
                    priority : {"all", "High"},
                    status : {"all", "completed", "pending"}] :
        LET set == {k \in DOMAIN controls : controls[k] # DefaultControls[k]}
        IN  Cardinality(set) <= 1 \/ Cardinality(set) = 4 }

-----------------------------------------------------------------------------
(* The filtered and sorted view *)

\* String.prototype.toLowerCase over the letters the inputs use
toLowerCase(s) ==
    [i \in 1..Len(s) |->
        CASE s[i] = "A" -> "a" [] s[i] = "B" -> "b" [] s[i] = "C" -> "c"
          [] OTHER -> s[i]]

\* String.prototype.includes
includes(s, term) ==
    \E i \in 0..(Len(s) - Len(term)) : SubSeq(s, i + 1, i + Len(term)) = term

\* variant: only the title is searched
matchesSearch_titleOnly(task, searchTerm) ==
    IF searchTerm = <<>> THEN TRUE
    ELSE includes(toLowerCase(task.title), searchTerm)

matchesSearch(task, searchTerm) ==
    IF searchTerm = <<>> THEN TRUE
    ELSE \/ includes(toLowerCase(task.title), searchTerm)
         \/ includes(toLowerCase(task.description), searchTerm)

matchesCategory(task, category) == category = "all" \/ task.category = category

matchesPriority(task, priority) == priority = "all" \/ task.priority = priority

matchesStatus(task, status) ==
    IF status = "all" THEN TRUE
    ELSE IF status = "completed" THEN task.completed
    ELSE IF status = "pending" THEN ~task.completed
    ELSE TRUE

priorityOrder(p) == CASE p = "High" -> 3 [] p = "Medium" -> 2 [] p = "Low" -> 1

\* variant: equal priorities never compare equal
compareTasks_noTie(a, b) ==
    IF a.completed # b.completed
    THEN (IF a.completed THEN 1 ELSE -1)
    ELSE IF priorityOrder(a.priority) > priorityOrder(b.priority) THEN -1 ELSE 1

\* variant: priorities compared the other way round
compareTasks_ascending(a, b) ==
    IF a.completed # b.completed
    THEN (IF a.completed THEN 1 ELSE -1)
    ELSE priorityOrder(a.priority) - priorityOrder(b.priority)

\* the comparator handed to sort
compareTasks(a, b) ==
    IF a.completed # b.completed
    THEN (IF a.completed THEN 1 ELSE -1)
    ELSE priorityOrder(b.priority) - priorityOrder(a.priority)

\* variant: this.tasks itself is sorted, then filtered
filterAndSortTasks_inPlace(ts, filters) ==
    LET sorted == SortBy(ts, [p \in Pairs(ts) |-> compareTasks(p[1], p[2])])
    IN  [returned |-> SelectSeq(sorted, LAMBDA task :
                         /\ matchesSearch(task, filters.searchTerm)
                         /\ matchesCategory(task, filters.category)
                         /\ matchesPriority(task, filters.priority)
                         /\ matchesStatus(task, filters.status)),
         tasks |-> sorted]

\* returns the array it hands back and this.tasks as the call leaves it:
\* filter builds a new array and sort works in place on that new array
filterAndSortTasks(ts, filters) ==
    LET filteredTasks ==
            SelectSeq(ts, LAMBDA task :
                /\ matchesSearch(task, filters.searchTerm)
                /\ matchesCategory(task, filters.category)
                /\ matchesPriority(task, filters.priority)
                /\ matchesStatus(task, filters.status))
    IN  [returned |-> SortBy(filteredTasks,
                             [p \in Pairs(filteredTasks) |-> compareTasks(p[1], p[2])]),
         tasks |-> ts]

\* reads the four controls; the search box is lower-cased
getFilters(controls) ==
    [searchTerm |-> toLowerCase(controls.searchTerm),
     category |-> controls.category,
     priority |-> controls.priority,
     status |-> controls.status]

\* what renderTasks draws when an operation re-renders the list: getFilters
\* reads the controls as they are then
rendered(ts) == filterAndSortTasks(ts, getFilters(filterControls)).returned

\* the ids of the .task-item elements of #task-list: one element per task
\* of the view of the last render. Every change of a control and every
\* operation that changes a task renders, and updateTaskOrder, which does
\* not, changes only the order of this.tasks, so these are the ids of the
\* view of this.tasks under the controls as they are
taskItems == Ids(rendered(tasks))

\* the end of renderTasks: nothing when the view is empty (return before
\* setupDragAndDrop), else one more drop listener on #task-list;
\* MaxListeners + 1 stands for every greater number
setupDragAndDrop(view) ==
    listeners' = IF view = <<>> THEN listeners
                 ELSE IF listeners <= MaxListeners THEN listeners + 1
                 ELSE listeners

\* the listeners a freshly constructed page has: init renders once, the
\* controls of the fresh document as loaded
attached(made) ==
    IF /\ made.phase = "running"
       /\ filterAndSortTasks(made.tasks, getFilters(DefaultControls)).returned # <<>>
    THEN 1 ELSE 0

-----------------------------------------------------------------------------
(* Store operations *)

\* variant: only the pending tasks are written
saveTasks_pending(ok) ==
    /\ ok \/ unsaved < MaxRejected
    /\ storage' = IF ok
                  THEN JSONstringify(SelectSeq(tasks', LAMBDA task : ~task.completed))
                  ELSE storage
    /\ unsaved' = IF ok THEN 0 ELSE unsaved + 1

\* variant: once a write was rejected, the next call does not write
saveTasks_skipAfterFailure(ok) ==
    /\ ok \/ unsaved < MaxRejected
    /\ storage' = IF ok /\ unsaved = 0 THEN JSONstringify(tasks') ELSE storage
    /\ unsaved' = IF ok THEN 0 ELSE unsaved + 1

\* writes this.tasks as the caller has just left it (tasks');
\* ok = FALSE: localStorage.setItem throws
saveTasks(ok) ==
    /\ ok \/ unsaved < MaxRejected
    /\ storage' = IF ok THEN JSONstringify(tasks') ELSE storage
    /\ unsaved' = IF ok THEN 0 ELSE unsaved + 1

Written(ok) == IF ok THEN "ok" ELSE "rejected"

\* history: the rejected writes that an accepted write comes after
MadeUp(ok) == IF ok THEN unsaved ELSE 0

\* the task literal of addTask
NewTask(id, taskData, now) ==
    [id |-> id,
     title |-> sanitizeInput(TextProp(taskData, "title")),
     category |-> taskData.category,
     dueDate |-> IF "dueDate" \in DOMAIN taskData /\ taskData.dueDate # ""
                 THEN taskData.dueDate ELSE Null,
     priority |-> taskData.priority,
     description |-> sanitizeInput(TextProp(taskData, "description")),
     completed |-> FALSE,
     createdAt |-> now]

\* variant: the task is kept only when the write went through
addTask_rollback(taskData, now, ok) ==
    /\ phase = "running"
    /\ nextId <= MaxId
    /\ Len(tasks) < MaxTasks
    /\ LET task == NewTask(nextId, taskData, now)
       IN  /\ nextId' = nextId + 1
           /\ tasks' = IF ok THEN Append(tasks, task) ELSE tasks
           /\ saveTasks(ok)
           /\ result' = <<task>>
           /\ lastOp' = [op |-> "create", id |-> task.id,
                         write |-> Written(ok),
                         madeUp |-> MadeUp(ok), arg |-> taskData]
           /\ sessionMax' = IF task.id > sessionMax THEN task.id ELSE sessionMax
    /\ UNCHANGED <<phase, filterControls>>
    /\ setupDragAndDrop(rendered(tasks'))

\* variant: the new task is put in front (unshift)
addTask_unshift(taskData, now, ok) ==
    /\ phase = "running"
    /\ nextId <= MaxId
    /\ Len(tasks) < MaxTasks
    /\ LET task == NewTask(nextId, taskData, now)
       IN  /\ nextId' = nextId + 1
           /\ tasks' = <<task>> \o tasks
           /\ saveTasks(ok)
           /\ result' = <<task>>
           /\ lastOp' = [op |-> "create", id |-> task.id,
                         write |-> Written(ok),
                         madeUp |-> MadeUp(ok), arg |-> taskData]
           /\ sessionMax' = IF task.id > sessionMax THEN task.id ELSE sessionMax
    /\ UNCHANGED <<phase, filterControls>>
    /\ setupDragAndDrop(rendered(tasks'))

addTask(taskData, now, ok) ==
    /\ phase = "running"
    /\ nextId <= MaxId
    /\ Len(tasks) < MaxTasks
    /\ LET task == NewTask(nextId, taskData, now)
       IN  /\ nextId' = nextId + 1
           /\ tasks' = Append(tasks, task)
           /\ saveTasks(ok)
           /\ result' = <<task>>
           /\ lastOp' = [op |-> "create", id |-> task.id,
                         write |-> Written(ok),
                         madeUp |-> MadeUp(ok), arg |-> taskData]
           /\ sessionMax' = IF task.id > sessionMax THEN task.id ELSE sessionMax
    /\ UNCHANGED <<phase, filterControls>>
    /\ setupDragAndDrop(rendered(tasks'))

\* the object literal of editTask: spread of the task, spread of
\* updatedData, then title and description
editedTask(task, updatedData) ==
    [k \in TaskKeys |->
        IF k = "title" THEN sanitizeInput(TextProp(updatedData, "title"))
        ELSE IF k = "description"
             THEN sanitizeInput(TextProp(updatedData, "description"))
        ELSE IF k \in DOMAIN updatedData THEN updatedData[k]
        ELSE task[k]]

editTask(id, updatedData, ok) ==
    /\ phase = "running"
    /\ LET taskIndex == findIndex(tasks, id)
       IN  IF taskIndex # -1
           THEN LET ts == [tasks EXCEPT ![taskIndex + 1] =
                              editedTask(tasks[taskIndex + 1], updatedData)]
                IN  /\ tasks' = ts
                    /\ saveTasks(ok)
                    /\ setupDragAndDrop(rendered(tasks'))
                    /\ lastOp' = [op |-> "update", id |-> id,
                                  write |-> Written(ok),
                         madeUp |-> MadeUp(ok), arg |-> updatedData]
           ELSE /\ UNCHANGED <<tasks, storage, unsaved, listeners>>
                /\ lastOp' = [op |-> "update", id |-> id,
                              write |-> "none", madeUp |-> 0, arg |-> updatedData]
    /\ result' = <<>>
    /\ UNCHANGED <<nextId, phase, sessionMax, filterControls>>

\* variant: the id is taken for the position in the list
deleteTask_byPosition(id, ok) ==
    /\ phase = "running"
    /\ LET ts == IF id <= Len(tasks)
                 THEN SubSeq(tasks, 1, id - 1) \o SubSeq(tasks, id + 1, Len(tasks))
                 ELSE tasks
       IN  /\ tasks' = ts
           /\ saveTasks(ok)
    /\ lastOp' = [op |-> "delete", id |-> id, write |-> Written(ok),
                         madeUp |-> MadeUp(ok), arg |-> <<>>]
    /\ result' = <<>>
    /\ UNCHANGED <<nextId, phase, sessionMax, filterControls>>
    /\ setupDragAndDrop(rendered(tasks'))

\* variant: nextId recomputed from what is left after the removal
deleteTask_regenerate(id, ok) ==
    /\ phase = "running"
    /\ LET ts == SelectSeq(tasks, LAMBDA task : task.id # id)
       IN  /\ tasks' = ts
           /\ nextId' = generateNextId(ts)
           /\ saveTasks(ok)
    /\ lastOp' = [op |-> "delete", id |-> id, write |-> Written(ok),
                         madeUp |-> MadeUp(ok), arg |-> <<>>]
    /\ result' = <<>>
    /\ UNCHANGED <<phase, sessionMax, filterControls>>
    /\ setupDragAndDrop(rendered(tasks'))

deleteTask(id, ok) ==
    /\ phase = "running"
    /\ LET ts == SelectSeq(tasks, LAMBDA task : task.id # id)
       IN  /\ tasks' = ts
           /\ saveTasks(ok)
    /\ lastOp' = [op |-> "delete", id |-> id, write |-> Written(ok),
                         madeUp |-> MadeUp(ok), arg |-> <<>>]
    /\ result' = <<>>
    /\ UNCHANGED <<nextId, phase, sessionMax, filterControls>>
    /\ setupDragAndDrop(rendered(tasks'))

\* variant: the task is marked completed whatever it was
toggledTasks_markDone(ts, id) ==
    LET taskIndex == findIndex(ts, id)
    IN  IF taskIndex # -1
        THEN [ts EXCEPT ![taskIndex + 1].completed = TRUE]
        ELSE ts

\* this.tasks after find and task.completed = !task.completed
toggledTasks(ts, id) ==
    LET taskIndex == findIndex(ts, id)
    IN  IF taskIndex # -1
        THEN [ts EXCEPT ![taskIndex + 1].completed = ~@]
        ELSE ts

toggleTaskCompletion(id, ok) ==
    /\ phase = "running"
    /\ LET taskIndex == findIndex(tasks, id)
       IN  IF taskIndex # -1
           THEN LET ts == toggledTasks(tasks, id)
                IN  /\ tasks' = ts
                    /\ saveTasks(ok)
                    /\ setupDragAndDrop(rendered(tasks'))
                    /\ lastOp' = [op |-> "toggle", id |-> id,
                                  write |-> Written(ok),
                         madeUp |-> MadeUp(ok), arg |-> <<>>]
           ELSE /\ UNCHANGED <<tasks, storage, unsaved, listeners>>
                /\ lastOp' = [op |-> "toggle", id |-> id,
                              write |-> "none", madeUp |-> 0, arg |-> <<>>]
    /\ result' = <<>>
    /\ UNCHANGED <<nextId, phase, sessionMax, filterControls>>

\* variant: the comparator never answers 0, so tasks with the same index
\* change places
reordered_noTie(ts, newOrder) ==
    SortBy(ts, [p \in Pairs(ts) |->
                  IF indexOf(newOrder, p[1].id) < indexOf(newOrder, p[2].id)
                  THEN -1 ELSE 1])

\* this.tasks after the sort of updateTaskOrder
reordered(ts, newOrder) ==
    SortBy(ts, [p \in Pairs(ts) |->
                  indexOf(newOrder, p[1].id) - indexOf(newOrder, p[2].id)])

\* variant: a task that is not in newOrder sorts behind those that are
updateTaskOrder_absentLast(newOrder, ok) ==
    /\ phase = "running"
    /\ LET at(id) == IF indexOf(newOrder, id) = -1 THEN Len(newOrder)
                     ELSE indexOf(newOrder, id)
           byNewOrder == [p \in Pairs(tasks) |-> at(p[1].id) - at(p[2].id)]
           ts == SortBy(tasks, byNewOrder)
       IN  /\ tasks' = ts
           /\ saveTasks(ok)
    /\ lastOp' = [op |-> "reorder", id |-> 0, write |-> Written(ok),
                         madeUp |-> MadeUp(ok), arg |-> newOrder]
    /\ result' = <<>>
    /\ UNCHANGED <<nextId, phase, sessionMax, filterControls, listeners>>

\* newOrder: the ids parsed from the .task-item elements
updateTaskOrder(newOrder, ok) ==
    /\ phase = "running"
    /\ LET ts == reordered(tasks, newOrder)
       IN  /\ tasks' = ts
           /\ saveTasks(ok)
    /\ lastOp' = [op |-> "reorder", id |-> 0, write |-> Written(ok),
                         madeUp |-> MadeUp(ok), arg |-> newOrder]
    /\ result' = <<>>
    /\ UNCHANGED <<nextId, phase, sessionMax, filterControls, listeners>>

\* one drop on the list. newOrder: the ids of the elements of the list as
\* the dragover listeners have left them, an arrangement of taskItems; every
\* drop listener attached so far runs updateTaskOrder, which reads the same
\* elements, sorts and saves; oks[n] tells whether the setItem of the n-th
\* listener is accepted. Modelled for up to MaxListeners listeners
drop(newOrder, oks) ==
    /\ phase = "running"
    /\ listeners <= MaxListeners
    /\ Len(oks) = listeners
    /\ LET \* this.tasks after the n-th listener
           sorted[n \in 0..Len(oks)] ==
               IF n = 0 THEN tasks ELSE reordered(sorted[n - 1], newOrder)
           accepted == {n \in 1..Len(oks) : oks[n]}
           \* rejected writes pending when the n-th listener saves
           pending(n) ==
               LET before == {m \in accepted : m < n}
               IN  IF before = {} THEN unsaved + (n - 1) ELSE (n - 1) - SetMax(before)
       IN  /\ \A n \in 1..Len(oks) : oks[n] \/ pending(n) < MaxRejected
           /\ tasks' = sorted[Len(oks)]
           /\ storage' = IF accepted = {} THEN storage
                         ELSE JSONstringify(sorted[SetMax(accepted)])
           /\ unsaved' = pending(Len(oks) + 1)
           /\ lastOp' = [op |-> "drop", id |-> 0,
                         write |-> IF oks = <<>> THEN "none" ELSE Written(oks[Len(oks)]),
                         madeUp |-> IF accepted = {} THEN 0 ELSE pending(SetMin(accepted)),
                         arg |-> [newOrder |-> newOrder, oks |-> oks]]
    /\ result' = <<>>
    /\ UNCHANGED <<nextId, phase, sessionMax, filterControls, listeners>>

-----------------------------------------------------------------------------
(* Rendering the list *)

\* an input or change event of a filter control (handleSearch,
\* handleFilterChange): controls is what the four controls hold after the
\* event, and the list is rendered with it
renderTasks(controls) ==
    /\ phase = "running"
    /\ filterControls' = controls
    /\ LET view == filterAndSortTasks(tasks, getFilters(controls))
       IN  /\ result' = view.returned
           /\ tasks' = view.tasks
           /\ setupDragAndDrop(view.returned)
    /\ lastOp' = [op |-> "query", id |-> 0, write |-> "none", madeUp |-> 0, arg |-> controls]
    /\ UNCHANGED <<nextId, storage, phase, sessionMax, unsaved>>

\* new Date(dateString).getTime() of a date-only string (midnight UTC), in
\* half days since 2024-01-01T00:00Z
DateValue(d) ==
    CASE d = "2024-01-09" -> 16
      [] d = "2024-01-10" -> 18

\* variant: due at this very moment counts as overdue
isTaskOverdue_notStrict(task, now) ==
    IF task.dueDate \in {Null, ""} \/ task.completed THEN FALSE
    ELSE DateValue(task.dueDate) <= now

\* now: what new Date() gives at the call, in the unit of DateValue;
\* null and '' are the falsy due dates
isTaskOverdue(task, now) ==
    IF task.dueDate \in {Null, ""} \/ task.completed THEN FALSE
    ELSE DateValue(task.dueDate) < now

\* the list drawn: createTaskElement calls isTaskOverdue once per
\* element, each call reads the clock; clock[j] is what new Date() gives
\* when the j-th element is drawn. result holds the tasks whose element is
\* drawn as overdue
renderOverdue(clock) ==
    /\ phase = "running"
    /\ LET view == filterAndSortTasks(tasks, getFilters(filterControls))
           drawn == view.returned
           marked == {j \in 1..Len(drawn) : isTaskOverdue(drawn[j], clock[j])}
           nth(k) == CHOOSE j \in marked : Cardinality({h \in marked : h <= j}) = k
       IN  /\ Len(clock) = Len(drawn)
           /\ result' = [k \in 1..Cardinality(marked) |-> drawn[nth(k)]]
           /\ tasks' = view.tasks
           /\ setupDragAndDrop(drawn)
           /\ lastOp' = [op |-> "overdue", id |-> 0, write |-> "none", madeUp |-> 0,
                         arg |-> [j \in 1..Len(drawn) |->
                                     [id |-> drawn[j].id, now |-> clock[j]]]]
    /\ UNCHANGED <<nextId, storage, phase, sessionMax, filterControls, unsaved>>

-----------------------------------------------------------------------------
(* The add form and the edit form *)

\* parseInt over what the hidden id field can hold; nan marks the result NaN
parseInt(text) ==
    IF text = "" THEN [nan |-> TRUE, n |-> 0]
    ELSE [nan |-> FALSE,
          n |-> CASE text = "1" -> 1 [] text = "2" -> 2 [] text = "3" -> 3]

\* form: the values of the five fields of the add form at submit; a title
\* that is empty or blank submits nothing
handleAddTask(form, now, ok) ==
    LET title == form.title
    IN  IF title # <<>> /\ trim(title) # <<>>
        THEN addTask(form, now, ok)
        ELSE /\ phase = "running"
             /\ lastOp' = [op |-> "addForm", id |-> 0, write |-> "none", madeUp |-> 0,
                           arg |-> form]
             /\ result' = <<>>
             /\ UNCHANGED <<tasks, nextId, storage, phase, sessionMax, filterControls, unsaved,
                            listeners>>

\* idValue: the text of the hidden id field; form: the values of the five
\* fields of the edit form at submit
handleEditTask(idValue, form, ok) ==
    LET id == parseInt(idValue)
    IN  IF ~id.nan /\ id.n # 0
        THEN editTask(id.n, form, ok)
        ELSE /\ phase = "running"
             /\ lastOp' = [op |-> "editForm", id |-> 0, write |-> "none", madeUp |-> 0,
                           arg |-> form]
             /\ result' = <<>>
             /\ UNCHANGED <<tasks, nextId, storage, phase, sessionMax, filterControls, unsaved,
                            listeners>>

-----------------------------------------------------------------------------
(* Start and reload of the page *)

\* collections an earlier session can have saved
PersistedTaskData == CHOOSE taskData \in TaskInputs : TRUE
PersistedCollections ==
    { <<NewTask(2, PersistedTaskData, 1)>>,
      <<NewTask(3, PersistedTaskData, 1), NewTask(1, PersistedTaskData, 1)>> }

InitialBlobs ==
    {Absent, Invalid, NonArray} \cup {JSONstringify(ts) : ts \in PersistedCollections}

Loaded(blob, readable) ==
    [op |-> "load", id |-> 0, write |-> "none", madeUp |-> 0, arg |-> LoadSource(blob, readable)]

IdsMax(ts) == IF Len(ts) = 0 THEN 0 ELSE SetMax({ts[i].id : i \in 1..Len(ts)})

\* the state the constructor leaves when the stored item is one of Blobs
InitFrom(Blobs) ==
    \E blob \in Blobs, readable \in BOOLEAN :
        LET made == constructor(blob, readable)
        IN  /\ storage = blob
            /\ tasks = made.tasks
            /\ nextId = made.nextId
            /\ phase = made.phase
            /\ result = <<>>
            /\ lastOp = Loaded(blob, readable)
            /\ sessionMax = IdsMax(made.tasks)
            /\ unsaved = 0
            /\ listeners = attached(made)
            /\ filterControls = DefaultControls

Init == InitFrom(InitialBlobs)

Reload(readable) ==
    LET made == constructor(storage, readable)
    IN  /\ tasks' = made.tasks
        /\ nextId' = made.nextId
        /\ phase' = made.phase
        /\ result' = <<>>
        /\ lastOp' = Loaded(storage, readable)
        /\ sessionMax' = IdsMax(made.tasks)
        /\ listeners' = attached(made)
        /\ filterControls' = DefaultControls
        /\ UNCHANGED <<storage, unsaved>>

-----------------------------------------------------------------------------
(* Specifications *)

\* the store driven through every operation, the backend accepting each write
Next ==
    \/ \E taskData \in TaskInputs, now \in Times : addTask(taskData, now, TRUE)
    \/ \E id \in IdArgs, updatedData \in UpdateInputs : editTask(id, updatedData, TRUE)
    \/ \E id \in IdArgs : deleteTask(id, TRUE)
    \/ \E id \in IdArgs : toggleTaskCompletion(id, TRUE)
    \/ \E newOrder \in FullOrders(tasks) : updateTaskOrder(newOrder, TRUE)
    \/ \E readable \in BOOLEAN : Reload(readable)

Spec == Init /\ [][Next]_vars

\* Create and Delete only
NextCD ==
    \/ \E taskData \in TaskInputs \cup {FullTaskData}, now \in Times \cup {2}, ok \in BOOLEAN :
           addTask(taskData, now, ok)
    \/ \E id \in IdArgs, ok \in BOOLEAN : deleteTask(id, ok)

SpecCD == Init /\ [][NextCD]_vars

\* the mutating operations against a backend that may reject a write
NextQuota ==
    \/ \E taskData \in TaskInputs, now \in Times, ok \in BOOLEAN :
           addTask(taskData, now, ok)
    \/ \E id \in IdArgs, ok \in BOOLEAN : editTask(id, FormInput, ok)
    \/ \E id \in IdArgs, ok \in BOOLEAN : deleteTask(id, ok)
    \/ \E id \in IdArgs, ok \in BOOLEAN : toggleTaskCompletion(id, ok)
    \/ \E newOrder \in FullOrders(tasks), ok \in BOOLEAN :
           updateTaskOrder(newOrder, ok)

SpecQuota == InitFrom({Absent}) /\ [][NextQuota]_vars

\* the view computed over stored collections of every shape up to MaxQueryLen
Priorities == {"High", "Medium", "Low"}

QueryTasks ==
    { [title |-> IF c THEN <<"a">> ELSE <<"B">>,
       category |-> IF p = "High" THEN "Work" ELSE "Personal",
       dueDate |-> Null,
       priority |-> p,
       description |-> IF p = "Low" THEN <<"x", "A">> ELSE <<>>,
       completed |-> c,
       createdAt |-> 1] : p \in Priorities, c \in BOOLEAN }

\* tasks numbered in stored order
QueryCollections ==
    { [i \in 1..Len(pick) |->
          [k \in TaskKeys |-> IF k = "id" THEN i ELSE pick[i][k]]] :
        pick \in UNION { [1..m -> QueryTasks] : m \in 0..MaxQueryLen } }

NextQuery == \E controls \in Filters : renderTasks(controls)

SpecQuery ==
    InitFrom({JSONstringify(ts) : ts \in QueryCollections}) /\ [][NextQuery]_vars

\* Create and Update, the Update with a full or a partial updatedData
NextEdit ==
    \/ \E taskData \in TaskInputs \cup {FullTaskData}, now \in Times :
           addTask(taskData, now, TRUE)
    \/ \E id \in IdArgs, updatedData \in EditInputs : editTask(id, updatedData, TRUE)

SpecEdit == Init /\ [][NextEdit]_vars

\* due dates a stored task can carry: none (created without one), the empty
\* string of an emptied date field, a day
DueDates == {Null, "", "2024-01-09"}

\* moments of evaluation: the afternoon of Jan 8, midnight and noon of Jan 9
Moments == 15..17

OverdueTasks ==
    { [title |-> <<"a">>, category |-> "Work", dueDate |-> d, priority |-> "Low",
       description |-> <<>>, completed |-> c, createdAt |-> 1] :
        d \in DueDates, c \in BOOLEAN }

\* tasks numbered in stored order
OverdueCollections ==
    { [i \in 1..Len(pick) |->
          [k \in TaskKeys |-> IF k = "id" THEN i ELSE pick[i][k]]] :
        pick \in UNION { [1..m -> OverdueTasks] : m \in 0..MaxTasks } }

\* the readings of a clock that never runs backwards, one per element
Clocks(n) ==
    { clock \in [1..n -> Moments] : \A j \in 1..(n - 1) : clock[j] <= clock[j + 1] }

NextOverdue == \E clock \in Clocks(Len(tasks)) : renderOverdue(clock)

SpecOverdue ==
    InitFrom({JSONstringify(ts) : ts \in OverdueCollections}) /\ [][NextOverdue]_vars

\* writes that may be rejected, and reloads of the page
NextRecover ==
    \/ \E taskData \in TaskInputs, now \in Times, ok \in BOOLEAN :
           addTask(taskData, now, ok)
    \/ \E id \in IdArgs, ok \in BOOLEAN : deleteTask(id, ok)
    \/ \E id \in IdArgs, ok \in BOOLEAN : toggleTaskCompletion(id, ok)
    \/ Reload(TRUE)

SpecRecover == InitFrom({Absent}) /\ [][NextRecover]_vars

\* what the title field can hold: nothing, a blank, text with a blank in
\* front, plain text
FormTitles == { <<>>, <<" ">>, <<" ", "a">>, <<"b">> }

Forms == { [FormInput EXCEPT !.title = title] : title \in FormTitles }

\* the hidden id field: empty before a modal was opened, or the id of a task
IdValues == {"", "1", "2"}

\* submissions of the two forms on a store that starts empty
NextForms ==
    \/ \E form \in Forms, now \in Times : handleAddTask(form, now, TRUE)
    \/ \E idValue \in IdValues, form \in Forms : handleEditTask(idValue, form, TRUE)

SpecForms == InitFrom({Absent}) /\ [][NextForms]_vars

\* drags over stored collections of up to MaxQueryLen tasks, the list
\* filtered or not
ReorderCollections ==
    { [i \in 1..Len(pick) |-> NewTask(i, pick[i], 1)] :
        pick \in UNION { [1..m -> TaskInputs \cup {FullTaskData}] : m \in 0..MaxQueryLen } }

NextReorder == \E newOrder \in IdOrders(tasks) : updateTaskOrder(newOrder, TRUE)

SpecReorder ==
    InitFrom({JSONstringify(ts) : ts \in ReorderCollections}) /\ [][NextReorder]_vars

\* the controls as loaded, or the status filter set
ReorderControls ==
    { [DefaultControls EXCEPT !.status = status] : status \in {"all", "completed", "pending"} }

\* collections of up to MaxTasks tasks an earlier session can have saved
DropCollections ==
    { [i \in 1..m |-> NewTask(i, PersistedTaskData, 1)] : m \in 0..MaxTasks }

\* filter changes, store operations (each ends with a render under the
\* controls as they are then), and updateTaskOrder called by itself or by
\* the listeners of a drop on the elements the list holds
NextDrop ==
    \/ \E controls \in ReorderControls : renderTasks(controls)
    \/ \E taskData \in TaskInputs, now \in Times : addTask(taskData, now, TRUE)
    \/ \E id \in IdArgs : toggleTaskCompletion(id, TRUE)
    \/ \E newOrder \in Arrangements(taskItems) : updateTaskOrder(newOrder, TRUE)
    \/ \E newOrder \in Arrangements(taskItems), oks \in [1..listeners -> BOOLEAN] :
           drop(newOrder, oks)

SpecDrop ==
    InitFrom({JSONstringify(ts) : ts \in DropCollections}) /\ [][NextDrop]_vars

-----------------------------------------------------------------------------
(* Properties *)

\* C1: after initialization from an empty store or from a persisted
\* collection with distinct ids, and after any sequence of Create and Delete,
\* no two stored tasks have the same id (checked under SpecCD).
C1_UniqueIds ==
    \A i, j \in 1..Len(tasks) : i # j => tasks[i].id # tasks[j].id

\* a Create has just added a second task to the collection
C1_Witness ==
    /\ lastOp.op = "create"
    /\ Len(tasks) = 2
    /\ tasks[2].id = lastOp.id

\* C2: every Create assigns an id strictly greater than every id an earlier
\* Create of the session assigned and every id of the loaded collection,
\* whatever Delete, Update, ToggleCompletion or Reorder came in between.
C2_CreateAboveSession ==
    [][lastOp'.op = "create" => result'[1].id > sessionMax]_vars

\* a Create that follows the Delete of the only, highest-id task: the
\* collection is empty when it runs, yet the id is not reissued
C2_Witness ==
    /\ lastOp.op = "create"
    /\ Len(tasks) = 1
    /\ tasks[1].id = 2
    /\ sessionMax = 2

\* C3: in every reachable state of the running store, nextId is strictly
\* greater than the id of every stored task.
C3_NextIdAboveAll ==
    phase = "running" => \A i \in 1..Len(tasks) : tasks[i].id < nextId

\* C4: Update on a task that exists leaves that task's id, createdAt and
\* completed as they were, also when the fields object carries those keys.
C4_UpdateKeepsIdentity ==
    [][lastOp'.op = "update" /\ lastOp'.write # "none" =>
         LET i == findIndex(tasks, lastOp'.id) + 1
         IN  /\ tasks'[i].id = tasks[i].id
             /\ tasks'[i].createdAt = tasks[i].createdAt
             /\ tasks'[i].completed = tasks[i].completed]_vars

\* C5: when the backend accepts the write of a mutating operation, the
\* stored blob is the serialization of the whole in-memory collection, in
\* stored order; the only operations that write nothing are an Update or a
\* ToggleCompletion of an id that is not stored (checked under SpecQuota).
C5_SavedBlobIsCollection ==
    /\ lastOp.write = "ok" => storage = JSONstringify(tasks)
    /\ lastOp.write = "none" =>
          /\ lastOp.op \in {"load", "query", "update", "toggle"}
          /\ lastOp.op \in {"update", "toggle"} => findIndex(tasks, lastOp.id) = -1

\* an accepted Reorder that put a completed task with the later id first,
\* ahead of a task edited through the form
C5_Witness ==
    /\ lastOp.op = "reorder"
    /\ lastOp.write = "ok"
    /\ Len(tasks) = 2
    /\ tasks[1].id = 2
    /\ tasks[1].completed
    /\ tasks[2].title = <<"c">>

\* C6: serializing any reachable collection and constructing the store from
\* that blob gives the same tasks, field by field and in the same order, and
\* a nextId greater than every reloaded id.
C6_RoundTrip ==
    phase = "running" =>
        LET made == constructor(JSONstringify(tasks), TRUE)
        IN  /\ made.phase = "running"
            /\ made.tasks = tasks
            /\ \A i \in 1..Len(made.tasks) : made.tasks[i].id < made.nextId

\* a reload that read back two tasks, one created without a due date (null)
\* and one edited through the form (empty due date, trimmed title)
C6_Witness ==
    /\ lastOp.op = "load"
    /\ lastOp.arg = "array"
    /\ Len(tasks) = 2
    /\ tasks[1].dueDate = Null
    /\ tasks[1].title = <<"a">>
    /\ tasks[2].dueDate = ""
    /\ tasks[2].completed
    /\ storage = JSONstringify(tasks)

\* C7: when the persisted blob is absent or corrupt (unreadable backend,
\* unparseable text, or parseable text that is not a sequence of tasks),
\* the store starts running with an empty collection and nextId = 1.
C7_InitNeverFails ==
    lastOp.op = "load" /\ lastOp.arg \in {"absent", "unreadable", "invalid", "object"}
        => phase = "running" /\ tasks = <<>> /\ nextId = 1

\* what the operation recorded in lastOp' does to the collection
MutatedTasks ==
    CASE lastOp'.op = "create" -> Append(tasks, result'[1])
      [] lastOp'.op = "update" ->
            [tasks EXCEPT ![findIndex(tasks, lastOp'.id) + 1] =
                editedTask(tasks[findIndex(tasks, lastOp'.id) + 1], lastOp'.arg)]
      [] lastOp'.op = "delete" ->
            SelectSeq(tasks, LAMBDA task : task.id # lastOp'.id)
      [] lastOp'.op = "toggle" ->
            [tasks EXCEPT ![findIndex(tasks, lastOp'.id) + 1].completed = ~@]
      [] lastOp'.op = "reorder" ->
            LET byNewOrder == [p \in Pairs(tasks) |->
                    indexOf(lastOp'.arg, p[1].id) - indexOf(lastOp'.arg, p[2].id)]
            IN  SortBy(tasks, byNewOrder)

\* C8: when the backend rejects the write of a mutating operation, the
\* operation completes, the collection and nextId hold the mutated state and
\* the blob is the one stored before the operation (checked under SpecQuota).
C8_RejectedWriteKeepsMutation ==
    [][lastOp'.write = "rejected" =>
         /\ phase' = "running"
         /\ storage' = storage
         /\ tasks' = MutatedTasks
         /\ nextId' = IF lastOp'.op = "create" THEN nextId + 1 ELSE nextId
         /\ lastOp'.op = "create" =>
               /\ result'[1].id = nextId
               /\ result'[1].title = sanitizeInput(lastOp'.arg.title)
               /\ ~result'[1].completed]_vars

\* a Delete whose write was rejected: the task is gone from memory and still
\* in the blob
C8_Witness ==
    /\ lastOp.op = "delete"
    /\ lastOp.write = "rejected"
    /\ Len(tasks) = 1
    /\ storage.kind = "array"
    /\ Len(storage.items) = 2

\* C9: Query leaves the stored collection, nextId and the blob unchanged, and
\* a repeated call with the same filters returns the same sequence (checked
\* under SpecQuery).
C9_QueryReadOnly ==
    [][lastOp'.op = "query" =>
         /\ tasks' = tasks
         /\ nextId' = nextId
         /\ storage' = storage
         /\ (lastOp.op = "query" /\ lastOp.arg = lastOp'.arg) => result' = result]_vars

\* a Query that returned all three stored tasks in an order other than the
\* stored one
C9_Witness ==
    /\ lastOp.op = "query"
    /\ Len(tasks) = 3
    /\ Len(result) = 3
    /\ Ids(result) = <<3, 2, 1>>
    /\ Ids(tasks) = <<1, 2, 3>>

\* C10: in the sequence Query returns, every pending task comes before every
\* completed task and, among the pending and among the completed, priorities
\* never increase (High > Medium > Low); stored [High pending, Low pending,
\* Medium completed] with status "all" yields [id1, id2, id3] (SpecQuery).
C10_PendingFirstThenPriority ==
    lastOp.op = "query" =>
        /\ \A i, j \in 1..Len(result) : i < j =>
              /\ ~(result[i].completed /\ ~result[j].completed)
              /\ result[i].completed = result[j].completed =>
                    priorityOrder(result[i].priority) >= priorityOrder(result[j].priority)
        /\ ( /\ Len(tasks) = 3
             /\ lastOp.arg = [searchTerm |-> <<>>, category |-> "all",
                              priority |-> "all", status |-> "all"]
             /\ tasks[1].priority = "High" /\ ~tasks[1].completed
             /\ tasks[2].priority = "Low" /\ ~tasks[2].completed
             /\ tasks[3].priority = "Medium" /\ tasks[3].completed )
           => Ids(result) = <<1, 2, 3>>

\* a Query with status "all" over stored [High completed, Low pending,
\* Medium pending]: the completed task moves last, Medium moves above Low
C10_Witness ==
    /\ lastOp.op = "query"
    /\ lastOp.arg.status = "all"
    /\ Len(tasks) = 3
    /\ tasks[1].priority = "High" /\ tasks[1].completed
    /\ tasks[2].priority = "Low" /\ ~tasks[2].completed
    /\ tasks[3].priority = "Medium" /\ ~tasks[3].completed
    /\ Ids(result) = <<3, 2, 1>>

\* C11: the sort of Query is stable: two returned tasks with the same
\* completed flag and the same priority come in the order in which the stored
\* collection holds them (checked under SpecQuery).
C11_StableSort ==
    lastOp.op = "query" =>
        \A i, j \in 1..Len(result) :
            ( /\ i < j
              /\ result[i].completed = result[j].completed
              /\ result[i].priority = result[j].priority )
            => findIndex(tasks, result[i].id) < findIndex(tasks, result[j].id)

\* stored [Low pending, High pending, Low pending]: High moves first and the
\* two Low tasks keep their stored order behind it
C11_Witness ==
    /\ lastOp.op = "query"
    /\ Len(tasks) = 3
    /\ tasks[1].priority = "Low" /\ ~tasks[1].completed
    /\ tasks[2].priority = "High" /\ ~tasks[2].completed
    /\ tasks[3].priority = "Low" /\ ~tasks[3].completed
    /\ Ids(result) = <<2, 1, 3>>

\* the same letter, whatever its case
SameLetter(x, y) ==
    \/ x = y
    \/ {x, y} \in {{"a", "A"}, {"b", "B"}, {"c", "C"}}

\* term occurs in text, letters compared without regard to case
OccursIn(term, text) ==
    \E at \in 0..(Len(text) - Len(term)) :
        \A k \in 1..Len(term) : SameLetter(text[at + k], term[k])

\* the four filters of C12, over the values the controls hold
Passes(task, controls) ==
    /\ \/ controls.searchTerm = <<>>
       \/ OccursIn(controls.searchTerm, task.title)
       \/ OccursIn(controls.searchTerm, task.description)
    /\ controls.category = "all" \/ task.category = controls.category
    /\ controls.priority = "all" \/ task.priority = controls.priority
    /\ \/ controls.status = "all"
       \/ controls.status = "completed" /\ task.completed
       \/ controls.status = "pending" /\ ~task.completed

\* C12: Query returns a stored task exactly once when it passes all four
\* filters (search term empty or a case-insensitive substring of title or
\* description; category, priority and status "all" or matching) and not at
\* all when it fails one (checked under SpecQuery).
C12_ExactlyThePassing ==
    lastOp.op = "query" =>
        /\ \A i \in 1..Len(tasks) :
              Cardinality({j \in 1..Len(result) : result[j] = tasks[i]})
                  = IF Passes(tasks[i], lastOp.arg) THEN 1 ELSE 0
        /\ \A j \in 1..Len(result) : \E i \in 1..Len(tasks) : result[j] = tasks[i]

\* a search for "A" over three stored tasks: one is found by its title "a",
\* one by its description "xA", and the task titled "B" with an empty
\* description is left out
C12_Witness ==
    /\ lastOp.op = "query"
    /\ lastOp.arg.searchTerm = <<"A">>
    /\ Len(tasks) = 3
    /\ Len(result) = 2
    /\ \E j \in 1..2 : result[j].title = <<"a">> /\ result[j].description = <<>>
    /\ \E j \in 1..2 : result[j].title = <<"B">> /\ result[j].description = <<"x", "A">>
    /\ \E i \in 1..3 : tasks[i].title = <<"B">> /\ tasks[i].description = <<>>

\* C13: Reorder(newIdOrder) with a full or partial sequence of stored ids
\* leaves a permutation of the same tasks: those whose id is not in newIdOrder
\* come first, in their previous relative order, and those in newIdOrder
\* follow in the order of newIdOrder; Reorder([id3, id1]) on [id1, id2, id3]
\* gives [id2, id3, id1], and a full newIdOrder gives exactly that order
\* (checked under SpecReorder).
C13_ReorderPlacesDragged ==
    [][lastOp'.op = "reorder" =>
         LET newIdOrder == lastOp'.arg
             kept == Len(tasks) - Len(newIdOrder)
             was(task) == CHOOSE i \in 1..Len(tasks) : tasks[i] = task
         IN  /\ Len(tasks') = Len(tasks)
             /\ \A i \in 1..Len(tasks) : \E j \in 1..Len(tasks') : tasks'[j] = tasks[i]
             /\ \A j \in 1..kept :
                   \A k \in 1..Len(newIdOrder) : tasks'[j].id # newIdOrder[k]
             /\ \A i, j \in 1..kept : i < j => was(tasks'[i]) < was(tasks'[j])
             /\ \A k \in 1..Len(newIdOrder) : tasks'[kept + k].id = newIdOrder[k]
             /\ Len(newIdOrder) = Len(tasks) => Ids(tasks') = newIdOrder
             /\ (Ids(tasks) = <<1, 2, 3>> /\ newIdOrder = <<3, 1>>)
                   => Ids(tasks') = <<2, 3, 1>>]_vars

\* the drag of the example: ids 3 and 1 were sent, task 2 stayed in front
C13_Witness ==
    /\ lastOp.op = "reorder"
    /\ lastOp.arg = <<3, 1>>
    /\ Ids(tasks) = <<2, 3, 1>>
    /\ storage = JSONstringify(tasks)

\* C14: Delete(id) removes the task with that id and nothing else: the
\* remaining tasks keep their field values and their relative order, nextId
\* is unchanged, and an id that is not stored leaves the collection and its
\* order as they were.
C14_DeleteRemovesOnlyThat ==
    [][lastOp'.op = "delete" =>
         LET stay == {i \in 1..Len(tasks) : tasks[i].id # lastOp'.id}
             nth(k) == CHOOSE i \in stay : Cardinality({h \in stay : h <= i}) = k
         IN  /\ Len(tasks') = Cardinality(stay)
             /\ \A k \in 1..Len(tasks') : tasks'[k] = tasks[nth(k)]
             /\ nextId' = nextId
             /\ stay = 1..Len(tasks) => tasks' = tasks]_vars

\* Delete of id 1 on a store loaded with ids [3, 1]: task 3 is what is left
\* and nextId is still 4
C14_Witness ==
    /\ lastOp.op = "delete"
    /\ lastOp.id = 1
    /\ Ids(tasks) = <<3>>
    /\ nextId = 4
    /\ storage = JSONstringify(tasks)

\* C15: Update(id, fields) on a stored task changes only the fields present
\* in the fields argument: every field that is not supplied (title or
\* description when only priority is supplied, say) keeps its previous value,
\* the other tasks are unchanged and the task keeps its position (SpecEdit).
C15_UpdateKeepsUnsupplied ==
    [][lastOp'.op = "update" /\ lastOp'.write # "none" =>
         LET i == findIndex(tasks, lastOp'.id) + 1
         IN  /\ Len(tasks') = Len(tasks)
             /\ \A j \in 1..Len(tasks) : j # i => tasks'[j] = tasks[j]
             /\ \A k \in TaskKeys \ DOMAIN lastOp'.arg : tasks'[i][k] = tasks[i][k]]_vars

\* C16: ToggleCompletion(id) negates the completed flag of the task with that
\* id and changes no other field, no other task, no position and not nextId;
\* with an id that is not stored the collection and the blob stay as they
\* were; a second call with the same id gives back the collection the first
\* call started from.
C16_ToggleNegatesOnlyFlag ==
    [][lastOp'.op = "toggle" =>
         LET i == findIndex(tasks, lastOp'.id) + 1
         IN  /\ nextId' = nextId
             /\ i = 0 => tasks' = tasks /\ storage' = storage
             /\ i # 0 =>
                   /\ Len(tasks') = Len(tasks)
                   /\ tasks'[i].completed = ~tasks[i].completed
                   /\ \A k \in TaskKeys \ {"completed"} : tasks'[i][k] = tasks[i][k]
                   /\ \A j \in 1..Len(tasks) : j # i => tasks'[j] = tasks[j]
                   /\ toggledTasks(tasks', lastOp'.id) = tasks]_vars

\* a ToggleCompletion has completed the second of two tasks; the first is
\* still pending
C16_Witness ==
    /\ lastOp.op = "toggle"
    /\ lastOp.write = "ok"
    /\ Len(tasks) = 2
    /\ lastOp.id = tasks[2].id
    /\ tasks[1].id # tasks[2].id
    /\ tasks[2].completed
    /\ ~tasks[1].completed

\* C17: the first Create on a store initialized with no persisted tasks
\* returns a task with id 1 and completed false; every Create returns a task
\* with completed false, appends it as the last element and leaves the tasks
\* stored before, and their order, unchanged (checked under SpecCD).
C17_CreateAppends ==
    [][lastOp'.op = "create" =>
         /\ Len(result') = 1
         /\ ~result'[1].completed
         /\ Len(tasks') = Len(tasks) + 1
         /\ tasks'[Len(tasks')] = result'[1]
         /\ \A i \in 1..Len(tasks) : tasks'[i] = tasks[i]
         /\ (lastOp.op = "load" /\ tasks = <<>>) => result'[1].id = 1]_vars

\* two Creates on a store that started empty: ids 1 and 2, the second
\* returned task is the last element
C17_Witness ==
    /\ lastOp.op = "create"
    /\ Ids(tasks) = <<1, 2>>
    /\ result = <<tasks[2]>>
    /\ ~tasks[1].completed /\ ~tasks[2].completed
    /\ nextId = 3

\* C18: at every moment of evaluation a task is overdue iff it has a dueDate,
\* is not completed and its dueDate is strictly before that moment; so no
\* completed task and no task without a dueDate is ever overdue; evaluating
\* the predicate changes no stored state (checked under SpecOverdue, every
\* stored task evaluated once per render, each at its own moment).
C18_OverdueIff ==
    [][lastOp'.op = "overdue" =>
         /\ tasks' = tasks
         /\ nextId' = nextId
         /\ storage' = storage
         /\ \A i \in 1..Len(tasks) :
               \E j \in 1..Len(lastOp'.arg) : lastOp'.arg[j].id = tasks[i].id
         /\ \A j \in 1..Len(lastOp'.arg) :
               \A i \in 1..Len(tasks) : tasks[i].id = lastOp'.arg[j].id =>
                   ( (\E k \in 1..Len(result') : result'[k] = tasks[i])
                     <=> ( /\ tasks[i].dueDate # Null
                           /\ tasks[i].dueDate # ""
                           /\ ~tasks[i].completed
                           /\ DateValue(tasks[i].dueDate) < lastOp'.arg[j].now ) )]_vars

\* two pending tasks due on Jan 9, the first evaluated at midnight of Jan 9,
\* the second at a later moment: only the second is overdue
C18_Witness ==
    /\ lastOp.op = "overdue"
    /\ Len(tasks) = 2
    /\ tasks[1].dueDate = "2024-01-09" /\ ~tasks[1].completed
    /\ tasks[2].dueDate = "2024-01-09" /\ ~tasks[2].completed
    /\ lastOp.arg = <<[id |-> 1, now |-> 16], [id |-> 2, now |-> 17]>>
    /\ Ids(result) = <<2>>

\* C19: after one or more mutating operations whose write was rejected, the
\* first later mutating operation whose write is accepted leaves the blob
\* equal to the serialization of the whole in-memory collection, and a reload
\* right after it (the backend readable) reproduces that collection
\* (checked under SpecRecover).
C19_AcceptedWriteCatchesUp ==
    [][ /\ lastOp'.madeUp > 0 => storage' = JSONstringify(tasks')
        /\ (lastOp.madeUp > 0 /\ lastOp'.op = "load") =>
              /\ phase' = "running"
              /\ tasks' = tasks ]_vars

\* a Create whose write was accepted right after a rejected write: the blob
\* holds both tasks, the one of the rejected write included
C19_Witness ==
    /\ lastOp.op = "create"
    /\ lastOp.write = "ok"
    /\ lastOp.madeUp = 1
    /\ Len(tasks) = 2
    /\ storage.kind = "array"
    /\ Len(storage.items) = 2

\* C20: from an empty store, after any sequence of add-form and edit-form
\* submissions with any title input (empty and blank ones included), every
\* stored task has a non-empty title without leading or trailing whitespace;
\* an add-form submission with an empty or blank title leaves the
\* collection, nextId and the blob unchanged (checked under SpecForms).
C20_FormsKeepTitles ==
    [][ /\ \A i \in 1..Len(tasks') :
              /\ tasks'[i].title # <<>>
              /\ tasks'[i].title[1] # " "
              /\ tasks'[i].title[Len(tasks'[i].title)] # " "
        /\ lastOp'.op = "addForm" =>
              /\ tasks' = tasks
              /\ nextId' = nextId
              /\ storage' = storage ]_vars

\* C21: Reorder is idempotent: Reorder(newIdOrder) applied to what
\* Reorder(newIdOrder) left gives the same stored order, of which the blob is
\* the serialization both times, so a drop that runs the reorder handler once
\* per attached listener leaves the order of one Reorder and, when a write
\* was accepted, the blob of one Reorder (checked under SpecDrop, where
\* newIdOrder is every arrangement of the ids of every list the status
\* filter can show).
C21_ReorderIdempotent ==
    [][ /\ lastOp'.op = "reorder" =>
              /\ reordered(tasks', lastOp'.arg) = tasks'
              /\ storage' = JSONstringify(tasks')
        /\ (lastOp'.op = "drop" /\ Len(lastOp'.arg.oks) >= 1) =>
              /\ tasks' = reordered(tasks, lastOp'.arg.newOrder)
              /\ storage' = IF \E n \in 1..Len(lastOp'.arg.oks) : lastOp'.arg.oks[n]
                            THEN JSONstringify(tasks')
                            ELSE storage ]_vars

\* both tasks displayed and task 2 dragged in front of task 1: a drop
\* handled by two listeners, both writes accepted
C21_Witness ==
    /\ lastOp.op = "drop"
    /\ lastOp.arg.oks = <<TRUE, TRUE>>
    /\ listeners = 2
    /\ lastOp.arg.newOrder = <<2, 1>>
    /\ Ids(tasks) = <<2, 1>>
    /\ storage = JSONstringify(tasks)

====
